---- MODULE Spec2Model ----
(***************************************************************************)
(* Model of lambda_function.py: the publishing pipeline                    *)
(*   build_site = download_sheets ; generate_site ; upload_recursively_to_s3 *)
(*                                                                         *)
(* Text is modelled as a sequence of tokens.  A token is a non-empty piece  *)
(* of text; the characters the code inspects ("." for Path.suffix, digits,  *)
(* "_" and ".csv" for the key pattern, "/" for keys, "," and the quote for  *)
(* csv) are always tokens of their own and never occur inside another       *)
(* token, so every string operation of the code has the same result on the  *)
(* token sequence as on the characters.  The three letters "csv" are one    *)
(* token, and no other token contains any of them.                          *)
(***************************************************************************)
EXTENDS Integers, Sequences, FiniteSets, TLC

(* ---------------------------- bounds ----------------------------------- *)
\* sheets in a workbook of the catalogue runs
MaxSheets == 3
\* tokens in a sheet title of the single-sheet runs
MaxTitleLen == 5

(* ------------------------- program constants --------------------------- *)
N_template == <<"template", ".", "html">>
N_DS_Store == <<".", "DS_Store">>
N_index    == <<"index", ".", "html">>

IGNORED_FILES == {N_template, N_DS_Store}

LISTS_MAPPING ==
    (<<"learning", "_", "resources">> :> <<"&#128218; Learning Resources">>)
 @@ (<<"productivity">>  :> <<"&#128187; Productivity">>)
 @@ (<<"health">>        :> <<"&#x1F3CB; Health & Fitness">>)
 @@ (<<"entertainment">> :> <<"&#x1F4FA; Entertainment">>)

CONTENT_TYPE_MAPPING ==
    (<<".", "css">>  :> "text/css")
 @@ (<<".", "html">> :> "text/html")
 @@ (<<".", "jpg">>  :> "image/jpeg")
 @@ (<<".", "xml">>  :> "text/xml")

(* ------------------------- text operations ----------------------------- *)
\* str.rfind("."), 1-based; 0 when there is no dot
rfind_dot(name) ==
    LET dots == {i \in 1..Len(name) : name[i] = "."}
    IN  IF dots = {} THEN 0 ELSE CHOOSE i \in dots : \A j \in dots : j <= i

\* pathlib's PurePath.suffix: the text from the last dot on, unless that dot
\* is the first or the last character of the name
suffix(name) ==
    LET i == rfind_dot(name)
    IN  IF 1 < i /\ i < Len(name) THEN SubSeq(name, i, Len(name)) ELSE <<>>

\* dict.get(key, default)
dict_get(d, k, default) == IF k \in DOMAIN d THEN d[k] ELSE default

\* the code point of the first character of each token used in a file name
Ord ==
    ("." :> 46) @@ ("1" :> 49) @@ ("2" :> 50) @@ ("9" :> 57) @@ ("_" :> 95)
 @@ ("a" :> 97) @@ ("b" :> 98) @@ ("csv" :> 99) @@ ("health" :> 104)
 @@ ("old" :> 111)

\* str.__lt__ on two names (pathlib compares two paths of one directory by name)
RECURSIVE StrLess(_, _)
StrLess(a, b) ==
    IF a = <<>> THEN b # <<>>
    ELSE IF b = <<>> THEN FALSE
    ELSE IF a[1] = b[1] THEN StrLess(Tail(a), Tail(b))
    ELSE Ord[a[1]] < Ord[b[1]]

RECURSIVE Insert(_, _)
Insert(x, s) ==
    IF s = <<>> THEN <<x>>
    ELSE IF StrLess(s[1], x) THEN <<s[1]>> \o Insert(x, Tail(s))
    ELSE <<x>> \o s

RECURSIVE SortedList(_)
SortedList(s) == IF s = <<>> THEN <<>> ELSE Insert(s[1], SortedList(Tail(s)))

\* the sort left out
list_sort_missing(s) == s

\* list.sort() of csv_files
list_sort(s) == SortedList(s)

(* --------------- the key pattern  [0-9]_(.*?)\.csv  -------------------- *)
Digits == {"0", "1", "2", "3", "4", "5", "6", "7", "8", "9"}

\* positions j at which "\.csv" matches
CsvAt(name, j) == j + 1 <= Len(name) /\ name[j] = "." /\ name[j + 1] = "csv"

\* positions i at which the whole pattern matches
MatchAt(name, i) ==
    /\ i + 1 <= Len(name)
    /\ name[i] \in Digits
    /\ name[i + 1] = "_"
    /\ \E j \in (i + 2)..Len(name) : CsvAt(name, j)

\* re.search: the leftmost position the pattern matches at, 0 for None
re_search(name) ==
    LET starts == {i \in 1..Len(name) : MatchAt(name, i)}
    IN  IF starts = {} THEN 0 ELSE CHOOSE i \in starts : \A k \in starts : i <= k

\* .group(1): the lazy (.*?) stops at the first "\.csv" after the underscore
group1(name) ==
    LET i    == re_search(name)
        ends == {j \in (i + 2)..Len(name) : CsvAt(name, j)}
        j    == CHOOSE e \in ends : \A k \in ends : e <= k
    IN  SubSeq(name, i + 2, j - 1)

(* ------------------------------ csv ------------------------------------ *)
CRLF == "\r\n"
QUOTE == "\""
Special == {",", QUOTE, CRLF}

RECURSIVE DoubleQuotes(_)
DoubleQuotes(cell) ==
    IF cell = <<>> THEN <<>>
    ELSE (IF cell[1] = QUOTE THEN <<QUOTE, QUOTE>> ELSE <<cell[1]>>)
         \o DoubleQuotes(Tail(cell))

\* one field under QUOTE_MINIMAL
WriteField(cell, alone) ==
    IF (\E i \in 1..Len(cell) : cell[i] \in Special) \/ (cell = <<>> /\ alone)
    THEN <<QUOTE>> \o DoubleQuotes(cell) \o <<QUOTE>>
    ELSE cell

RECURSIVE WriteFields(_, _)
WriteFields(row, alone) ==
    IF row = <<>> THEN <<>>
    ELSE WriteField(row[1], alone)
         \o (IF Len(row) > 1 THEN <<",">> ELSE <<>>)
         \o WriteFields(Tail(row), alone)

\* csv.writer(f).writerow(row)
writerow(row) == WriteFields(row, Len(row) = 1) \o <<CRLF>>

\* csv.writer(f).writerows(rows)
RECURSIVE writerows(_)
writerows(rows) ==
    IF rows = <<>> THEN <<>> ELSE writerow(rows[1]) \o writerows(Tail(rows))

\* csv.reader over the text of a file: the rows parsed so far are `rows`, the
\* row being read is `row`, the field being read is `cell`; `inq` inside quotes,
\* `any` once the current line has shown a field
RECURSIVE ReadCsv(_, _, _, _, _, _)
ReadCsv(text, rows, row, cell, inq, any) ==
    IF text = <<>>
    THEN IF any THEN rows \o <<row \o <<cell>>>> ELSE rows
    ELSE LET t == text[1] IN
         IF inq
         THEN IF t = QUOTE /\ Len(text) > 1 /\ text[2] = QUOTE
              THEN ReadCsv(Tail(Tail(text)), rows, row, cell \o <<QUOTE>>, TRUE, TRUE)
              ELSE IF t = QUOTE
              THEN ReadCsv(Tail(text), rows, row, cell, FALSE, TRUE)
              ELSE ReadCsv(Tail(text), rows, row, cell \o <<t>>, TRUE, TRUE)
         ELSE IF t = QUOTE /\ cell = <<>>
              THEN ReadCsv(Tail(text), rows, row, cell, TRUE, TRUE)
              ELSE IF t = ","
              THEN ReadCsv(Tail(text), rows, row \o <<cell>>, <<>>, FALSE, TRUE)
              ELSE IF t = CRLF
              THEN ReadCsv(Tail(text),
                           rows \o <<IF any THEN row \o <<cell>> ELSE <<>>>>,
                           <<>>, <<>>, FALSE, FALSE)
              ELSE ReadCsv(Tail(text), rows, row, cell \o <<t>>, FALSE, TRUE)

csv_reader(text) == ReadCsv(text, <<>>, <<>>, <<>>, FALSE, FALSE)

RECURSIVE NonEmptyRows(_)
NonEmptyRows(rows) ==
    IF rows = <<>> THEN <<>>
    ELSE (IF rows[1] = <<>> THEN <<>> ELSE <<rows[1]>>) \o NonEmptyRows(Tail(rows))

None == <<"None">>

\* one record of csv.DictReader: dict(zip(fieldnames, row)), the fields the row
\* lacks set to None, the cells beyond the header kept under the key None
DictRow(fieldnames, row) ==
    LET names   == {fieldnames[i] : i \in 1..Len(fieldnames)}
        last(f) == CHOOSE i \in 1..Len(fieldnames) :
                      /\ fieldnames[i] = f
                      /\ \A k \in 1..Len(fieldnames) : fieldnames[k] = f => k <= i
        named   == [f \in names |-> IF last(f) <= Len(row) THEN <<row[last(f)]>> ELSE <<None>>]
    IN  IF Len(row) > Len(fieldnames)
        THEN (None :> SubSeq(row, Len(fieldnames) + 1, Len(row))) @@ named
        ELSE named

\* [row for row in csv.DictReader(f)]: the first row is the header, blank
\* lines are skipped
DictReader(text) ==
    LET rows == csv_reader(text)
        body == IF rows = <<>> THEN <<>> ELSE NonEmptyRows(Tail(rows))
    IN  [i \in 1..Len(body) |-> DictRow(rows[1], body[i])]

(* ----------------------------- directories ----------------------------- *)
\* A directory tree: whether the root exists, the sub-directories and the
\* files below it.  A path is the sequence of the names from the root down.
EmptyMap == [x \in {} |-> x]
NoDir    == [exists |-> FALSE, dirs |-> {}, files |-> EmptyMap]
EmptyDir == [exists |-> TRUE, dirs |-> {}, files |-> EmptyMap]

Restrict(f, S) == [x \in S |-> f[x]]
Last(p) == p[Len(p)]
Ancestors(p) == {SubSeq(p, 1, k) : k \in 1..(Len(p) - 1)}
Under(p, d) == Len(p) > Len(d) /\ SubSeq(p, 1, Len(d)) = d

\* Path.iterdir(): the entries directly inside directory d
iterdir(tree, d) ==
    {p \in tree.dirs \cup DOMAIN tree.files : Len(p) = Len(d) + 1 /\ Under(p, d)}

\* Path.is_dir()
is_dir(tree, p) == p \in tree.dirs

\* shutil.rmtree(dir, ignore_errors=True): what may be left.  Every removal
\* can fail and the failure is swallowed, so any part of the tree may survive,
\* the root with it; the root is gone only when everything below it is.
rmtree(tree) ==
    IF ~tree.exists THEN {NoDir}
    ELSE {NoDir} \cup
         {[exists |-> TRUE, dirs |-> D, files |-> Restrict(tree.files, F)] :
            <<D, F>> \in {x \in (SUBSET tree.dirs) \X (SUBSET DOMAIN tree.files) :
                            \A p \in x[1] \cup x[2] : Ancestors(p) \subseteq x[1]}}

\* mkdir(exist_ok=True)
mkdir_exist_ok(tree) == TRUE

\* Path.mkdir(): succeeds only when nothing is there
mkdir_ok(tree) == ~tree.exists

\* the directory after rmtree left `left` behind and mkdir ran
mkdir(left) == IF left.exists THEN left ELSE EmptyDir

(* ------------------------------ inputs --------------------------------- *)
\* sheet titles and grids of the catalogue runs
T_1a  == <<"1", "_", "a">>
T_2h  == <<"2", "_", "health">>
T_a   == <<"a">>
T_b1a == <<"b", "1", "_", "a">>
CatalogueTitles == {T_1a, T_2h, T_a, T_b1a}

G_plain  == << <<<<"title">>, <<"url">>>>, <<<<"Course">>, <<"http://x">>>> >>
G_quoted == << <<<<"title">>, <<"url">>>>,
               <<<<"Yoga", ",", "at", "home">>, <<QUOTE, "y", QUOTE>>>>,
               <<<<>>, <<>>>> >>
G_one    == << <<<<"title">>>>, <<<<>>>> >>

\* worksheet.get_all_values() of the sheet with this title
GridOf(title) ==
    IF title = T_2h THEN G_quoted ELSE IF title = T_a THEN G_one ELSE G_plain

Sheet(title) == [title |-> title, values |-> GridOf(title)]

\* the sequences of at most n sheets with distinct titles drawn from S
Workbooks(S, n) ==
    UNION {{w \in [1..k -> {Sheet(t) : t \in S}] :
              \A i, j \in 1..k : i # j => w[i].title # w[j].title} : k \in 0..n}

\* the non-empty token sequences of at most n tokens
TitleTokens == {"1", "_", "a", ".", "csv"}
Titles(n) == UNION {[1..k -> TitleTokens] : k \in 1..n}

\* a file of the template or the site directory
Asset(what)    == [what |-> what, lists |-> <<>>]
Page(lists)    == [what |-> "rendered", lists |-> lists]
N_css    == <<"css">>
N_img    == <<"img">>
N_style  == <<"style", ".", "css">>
N_logo   == <<"logo", ".", "jpg">>
N_map    == <<"sitemap", ".", "xml">>
N_robots == <<"robots", ".", "txt">>
N_CNAME  == <<"CNAME">>
N_old    == <<"old", ".", "html">>

Tree(dirs, files) == [exists |-> TRUE, dirs |-> dirs, files |-> files]

\* the template directory as the repository ships it, with the junk a desktop
\* leaves in it
TemplateFull ==
    Tree({<<N_css>>, <<N_css, N_img>>},
         (<<N_template>> :> Asset("template ok"))
      @@ (<<N_DS_Store>> :> Asset("junk"))
      @@ (<<N_robots>> :> Asset("robots"))
      @@ (<<N_map>> :> Asset("sitemap"))
      @@ (<<N_css, N_style>> :> Asset("style"))
      @@ (<<N_css, N_DS_Store>> :> Asset("junk"))
      @@ (<<N_css, N_img, N_logo>> :> Asset("logo")))
\* template.html is missing
TemplateMissing ==
    Tree({<<N_css>>}, (<<N_css, N_style>> :> Asset("style")))
\* template.html does not parse
TemplateSyntax ==
    Tree({<<N_img>>},
         (<<N_template>> :> Asset("template syntax error"))
      @@ (<<N_map>> :> Asset("sitemap")))
\* template.html parses and fails when rendered
TemplateRender ==
    Tree({}, (<<N_template>> :> Asset("template render error"))
          @@ (<<N_CNAME>> :> Asset("cname")))
Templates == {TemplateFull, TemplateMissing, TemplateSyntax, TemplateRender}

\* what an earlier run left in the data and the site directory
StaleData ==
    Tree({}, (<<<<"9", "_", "old", ".", "csv">>>> :> <<"stale", CRLF>>)
          @@ (<<T_1a \o <<".", "csv">>>> :> <<"stale", CRLF>>))
StaleSite ==
    Tree({<<N_css>>}, (<<N_old>> :> Asset("stale"))
                   @@ (<<N_css, N_style>> :> Asset("stale")))

\* an object of the bucket
Object(body, content_type) == [Body |-> body, ContentType |-> content_type]
StaleBucket ==
    (<<"old", ".", "html">> :> Object(Asset("stale"), "text/html"))
 @@ (<<"css", "/", "style", ".", "css">> :> Object(Asset("stale"), "text/css"))
 @@ (<<"index", ".", "html">> :> Object(Asset("stale"), "text/html"))

(* ------------------------------- state --------------------------------- *)
VARIABLES
    pc,          \* where build_site is
    raised,      \* the exception that ended the run: [stage, error], or NoError
    workbook,    \* the sheets of the workbook "Stay Home and Learn"
    TEMPLATE_DIR,
    DATA_DIR,
    SITE_DIR,
    bucket,      \* the objects of the bucket, by key
    sheet_i,     \* download_sheets: the worksheet the loop is at
    csv_files,   \* generate_site: the sorted list of the data files
    lists_all,   \* generate_site: the categories handed to the template
    stack,       \* upload_recursively_to_s3: the calls in progress
    started,     \* the stages entered in this run
    completed,   \* the stages that returned
    uploads,     \* the upload_file calls made: [file, Key, ContentType] -> count
    before       \* the data and the site directory as the run found them

vars == <<pc, raised, workbook, TEMPLATE_DIR, DATA_DIR, SITE_DIR, bucket, sheet_i,
          csv_files, lists_all, stack, started, completed, uploads, before>>

NoError == [stage |-> "none", error |-> "none"]

InitRun ==
    /\ pc = "download_sheets"
    /\ raised = NoError
    /\ sheet_i = 1
    /\ csv_files = <<>>
    /\ lists_all = <<>>
    /\ stack = <<>>
    /\ started = {}
    /\ completed = {}
    /\ uploads = EmptyMap
    /\ before = [data |-> DATA_DIR, site |-> SITE_DIR]

\* catalogue runs: a workbook of a few sheets, each template directory, with
\* and without the leftovers of an earlier run
Init ==
    /\ workbook \in Workbooks(CatalogueTitles, MaxSheets)
    /\ TEMPLATE_DIR \in Templates
    /\ DATA_DIR \in {NoDir, StaleData}
    /\ SITE_DIR \in {NoDir, StaleSite}
    /\ bucket \in {EmptyMap, StaleBucket}
    /\ InitRun

\* single-sheet runs: one sheet of any title, a first run on a clean checkout
InitTitles ==
    /\ workbook \in {<<[title |-> t, values |-> G_plain]>> : t \in Titles(MaxTitleLen)}
    /\ TEMPLATE_DIR = TemplateFull
    /\ DATA_DIR = NoDir
    /\ SITE_DIR = NoDir
    /\ bucket = EmptyMap
    /\ InitRun

(* ------------------------ pieces of the stages -------------------------- *)
\* a stage's exception caught and dropped
propagate_swallowed(ok, next) == next

\* build_site has no try/except: an exception raised in a stage leaves
\* build_site at once, otherwise control goes on to `next`
propagate(ok, next) == IF ok THEN next ELSE "failed"

Error(stage, error) == [stage |-> stage, error |-> error]

\* the extension forgotten
sheet_filename_bare(title) == title

\* DATA_DIR / (worksheet.title + ".csv")
sheet_filename(title) == title \o <<".", "csv">>

\* open(filename, "w") and writerows: the file is created or truncated
write_sheet(dir, sheet) ==
    [dir EXCEPT !.files = (<<sheet_filename(sheet.title)>> :> writerows(sheet.values)) @@ @]

\* one entry of TEMPLATE_DIR.iterdir(): a directory goes through copytree, a
\* file through copy unless it is the template or .DS_Store
copied_files(T, e) ==
    IF is_dir(T, e) THEN {p \in DOMAIN T.files : Under(p, e)}
    ELSE IF Last(e) # N_template /\ Last(e) # N_DS_Store THEN {e} ELSE {}

copied_dirs(T, e) ==
    IF is_dir(T, e) THEN {e} \cup {d \in T.dirs : Under(d, e)} ELSE {}

\* shutil.copytree refuses a destination that exists
copy_ok(T, site) == \A e \in iterdir(T, <<>>) : is_dir(T, e) => e \notin site.dirs

copy_assets(T, site) ==
    [exists |-> site.exists,
     dirs   |-> site.dirs \cup UNION {copied_dirs(T, e) : e \in iterdir(T, <<>>)},
     files  |-> Restrict(T.files, UNION {copied_files(T, e) : e \in iterdir(T, <<>>)})
                @@ site.files]

\* template_env.get_template("template.html")
template_state(T) ==
    IF <<N_template>> \in DOMAIN T.files THEN T.files[<<N_template>>].what ELSE "missing"

\* the files of DATA_DIR with the suffix ".csv"
csv_names(data) ==
    {Last(p) : p \in {q \in iterdir(data, <<>>) : suffix(Last(q)) = <<".", "csv">>}}

\* the orders iterdir() may list a set of names in
Orders(S) ==
    {f \in [1..Cardinality(S) -> S] : \A i, j \in 1..Cardinality(S) : i # j => f[i] # f[j]}

\* one category: (original_name, processed_name, list_ind)
category(data, name) ==
    LET original_name == group1(name)
    IN  [original_name  |-> original_name,
         processed_name |-> dict_get(LISTS_MAPPING, original_name, original_name),
         list_ind       |-> DictReader(data.files[<<name>>])]

\* index.html opened for writing before the template is rendered
write_index_first(site, output, ok) ==
    [site EXCEPT !.files = (<<N_index>> :> (IF ok THEN output ELSE Page(<<>>))) @@ @]

\* open(SITE_DIR / "index.html", "w") runs after template.render returned
write_index(site, output, ok) ==
    IF ok THEN [site EXCEPT !.files = (<<N_index>> :> output) @@ @] ELSE site

\* filename.name not in IGNORED_FILES
not_ignored(name) == name \notin IGNORED_FILES

\* the prefix dropped from the key
upload_key_flat(prefix, name) == name

\* Key=prefix + filename.name
upload_key(prefix, name) == prefix \o name

\* prefix + filename.name + "/"
sub_prefix(prefix, name) == prefix \o name \o <<"/">>

\* the table looked up by the file name instead of its suffix
content_type_by_name(name) ==
    dict_get(CONTENT_TYPE_MAPPING, name, "application/octet-stream")

\* CONTENT_TYPE_MAPPING.get(filename.suffix, "application/octet-stream")
content_type(name) ==
    dict_get(CONTENT_TYPE_MAPPING, suffix(name), "application/octet-stream")

\* the bucket replaced by the uploaded object
upload_file_replace(b, key, object) == (key :> object)

\* Bucket.upload_file: the object is stored under the key, replacing the one
\* that was there
upload_file(b, key, object) == (key :> object) @@ b

Frame(site, dir, prefix) == [dir |-> dir, prefix |-> prefix, todo |-> iterdir(site, dir)]

Count(bag, e) == IF e \in DOMAIN bag THEN [bag EXCEPT ![e] = @ + 1] ELSE (e :> 1) @@ bag

(* ------------------------------ actions -------------------------------- *)
\* download_sheets, lines 54-55
DownloadClear ==
    /\ pc = "download_sheets"
    /\ \E left \in rmtree(DATA_DIR) :
         /\ DATA_DIR' = mkdir(left)
         /\ pc' = propagate(mkdir_ok(left), "dl_open")
         /\ raised' = IF mkdir_ok(left) THEN raised
                      ELSE Error("download_sheets", "FileExistsError")
    /\ started' = started \cup {"download_sheets"}
    /\ UNCHANGED <<workbook, TEMPLATE_DIR, SITE_DIR, bucket, sheet_i, csv_files,
                   lists_all, stack, completed, uploads, before>>

\* download_sheets, lines 57-66: credentials, authorize, open the workbook
DownloadOpen ==
    /\ pc = "dl_open"
    /\ \E error \in {"none", "credentials", "SpreadsheetNotFound"} :
         /\ pc' = propagate(error = "none", "dl_loop")
         /\ raised' = IF error = "none" THEN raised ELSE Error("download_sheets", error)
    /\ sheet_i' = 1
    /\ UNCHANGED <<workbook, TEMPLATE_DIR, DATA_DIR, SITE_DIR, bucket, csv_files,
                   lists_all, stack, started, completed, uploads, before>>

\* download_sheets, lines 67-73: one turn of the loop over the worksheets
DownloadSheet ==
    /\ pc = "dl_loop"
    /\ sheet_i <= Len(workbook)
    /\ \E ok \in BOOLEAN :
         /\ pc' = propagate(ok, "dl_loop")
         /\ raised' = IF ok THEN raised ELSE Error("download_sheets", "APIError")
         /\ DATA_DIR' = IF ok THEN write_sheet(DATA_DIR, workbook[sheet_i]) ELSE DATA_DIR
    /\ sheet_i' = sheet_i + 1
    /\ UNCHANGED <<workbook, TEMPLATE_DIR, SITE_DIR, bucket, csv_files, lists_all,
                   stack, started, completed, uploads, before>>

\* download_sheets returns; build_site goes on to line 140
DownloadReturn ==
    /\ pc = "dl_loop"
    /\ sheet_i > Len(workbook)
    /\ pc' = "generate_site"
    /\ completed' = completed \cup {"download_sheets"}
    /\ UNCHANGED <<raised, workbook, TEMPLATE_DIR, DATA_DIR, SITE_DIR, bucket, sheet_i,
                   csv_files, lists_all, stack, started, uploads, before>>

\* generate_site, lines 78-79
GenerateClear ==
    /\ pc = "generate_site"
    /\ \E left \in rmtree(SITE_DIR) :
         /\ SITE_DIR' = mkdir(left)
         /\ pc' = propagate(mkdir_ok(left), "gen_copy")
         /\ raised' = IF mkdir_ok(left) THEN raised
                      ELSE Error("generate_site", "FileExistsError")
    /\ started' = started \cup {"generate_site"}
    /\ UNCHANGED <<workbook, TEMPLATE_DIR, DATA_DIR, bucket, sheet_i, csv_files,
                   lists_all, stack, completed, uploads, before>>

\* generate_site, lines 81-85: the loop over the template directory
GenerateCopy ==
    /\ pc = "gen_copy"
    /\ pc' = propagate(copy_ok(TEMPLATE_DIR, SITE_DIR), "gen_template")
    /\ raised' = IF copy_ok(TEMPLATE_DIR, SITE_DIR) THEN raised
                 ELSE Error("generate_site", "FileExistsError")
    /\ SITE_DIR' = IF copy_ok(TEMPLATE_DIR, SITE_DIR)
                   THEN copy_assets(TEMPLATE_DIR, SITE_DIR) ELSE SITE_DIR
    /\ UNCHANGED <<workbook, TEMPLATE_DIR, DATA_DIR, bucket, sheet_i, csv_files,
                   lists_all, stack, started, completed, uploads, before>>

\* generate_site, lines 86-88: load template.html
GenerateTemplate ==
    /\ pc = "gen_template"
    /\ LET t  == template_state(TEMPLATE_DIR)
           ok == t \notin {"missing", "template syntax error"}
       IN  /\ pc' = propagate(ok, "gen_lists")
           /\ raised' = IF ok THEN raised
                        ELSE Error("generate_site",
                                   IF t = "missing" THEN "TemplateNotFound"
                                   ELSE "TemplateSyntaxError")
    /\ UNCHANGED <<workbook, TEMPLATE_DIR, DATA_DIR, SITE_DIR, bucket, sheet_i,
                   csv_files, lists_all, stack, started, completed, uploads, before>>

\* generate_site, lines 90-101: list the data files, sort them, read each
GenerateLists ==
    /\ pc = "gen_lists"
    /\ \E order \in Orders(csv_names(DATA_DIR)) :
         LET sorted == list_sort(order)
             ok     == \A i \in 1..Len(sorted) : re_search(sorted[i]) # 0
         IN  /\ csv_files' = sorted
             /\ lists_all' = IF ok THEN [i \in 1..Len(sorted) |-> category(DATA_DIR, sorted[i])]
                             ELSE <<>>
             /\ pc' = propagate(ok, "gen_render")
             /\ raised' = IF ok THEN raised ELSE Error("generate_site", "AttributeError")
    /\ UNCHANGED <<workbook, TEMPLATE_DIR, DATA_DIR, SITE_DIR, bucket, sheet_i, stack,
                   started, completed, uploads, before>>

\* generate_site, lines 103-112: render, write index.html, return
GenerateRender ==
    /\ pc = "gen_render"
    /\ LET ok == template_state(TEMPLATE_DIR) = "template ok"
       IN  /\ SITE_DIR' = write_index(SITE_DIR, Page(lists_all), ok)
           /\ pc' = propagate(ok, "session")
           /\ raised' = IF ok THEN raised ELSE Error("generate_site", "UndefinedError")
           /\ completed' = IF ok THEN completed \cup {"generate_site"} ELSE completed
    /\ UNCHANGED <<workbook, TEMPLATE_DIR, DATA_DIR, bucket, sheet_i, csv_files,
                   lists_all, stack, started, uploads, before>>

\* build_site, lines 141-143: the session, and the call of the upload
OpenSession ==
    /\ pc = "session"
    /\ \E ok \in BOOLEAN :
         /\ pc' = propagate(ok, "upload")
         /\ raised' = IF ok THEN raised ELSE Error("build_site", "ProfileNotFound")
         /\ stack' = IF ok THEN <<Frame(SITE_DIR, <<>>, <<>>)>> ELSE stack
         /\ started' = IF ok THEN started \cup {"upload_recursively_to_s3"} ELSE started
    /\ UNCHANGED <<workbook, TEMPLATE_DIR, DATA_DIR, SITE_DIR, bucket, sheet_i,
                   csv_files, lists_all, completed, uploads, before>>

\* upload_recursively_to_s3, lines 124-135: one turn of the loop of the
\* innermost call
UploadEntry ==
    /\ pc = "upload"
    /\ stack # <<>>
    /\ LET top == stack[Len(stack)] IN
       \E e \in top.todo, ok \in BOOLEAN :
         LET below == SubSeq(stack, 1, Len(stack) - 1)
             rest  == [top EXCEPT !.todo = @ \ {e}]
             name  == Last(e)
             call  == [file |-> e, Key |-> upload_key(top.prefix, name),
                       ContentType |-> content_type(name)]
         IN  IF is_dir(SITE_DIR, e)
             THEN /\ stack' = below \o <<rest, Frame(SITE_DIR, e, sub_prefix(top.prefix, name))>>
                  /\ UNCHANGED <<pc, raised, bucket, uploads>>
             ELSE IF ~not_ignored(name)
             THEN /\ stack' = below \o <<rest>>
                  /\ UNCHANGED <<pc, raised, bucket, uploads>>
             ELSE /\ pc' = propagate(ok, "upload")
                  /\ stack' = IF pc' = "failed" THEN <<>> ELSE below \o <<rest>>
                  /\ raised' = IF ok THEN raised
                               ELSE Error("upload_recursively_to_s3", "S3UploadFailedError")
                  /\ bucket' = IF ok
                               THEN upload_file(bucket, call.Key,
                                                Object(SITE_DIR.files[e], call.ContentType))
                               ELSE bucket
                  /\ uploads' = IF ok THEN Count(uploads, call) ELSE uploads
    /\ UNCHANGED <<workbook, TEMPLATE_DIR, DATA_DIR, SITE_DIR, sheet_i, csv_files,
                   lists_all, started, completed, before>>

\* upload_recursively_to_s3: the loop of the innermost call is over, the call
\* returns; the outermost return ends build_site
UploadReturn ==
    /\ pc = "upload"
    /\ stack # <<>>
    /\ stack[Len(stack)].todo = {}
    /\ stack' = SubSeq(stack, 1, Len(stack) - 1)
    /\ pc' = IF Len(stack) = 1 THEN "done" ELSE pc
    /\ completed' = IF Len(stack) = 1 THEN completed \cup {"upload_recursively_to_s3"}
                    ELSE completed
    /\ UNCHANGED <<raised, workbook, TEMPLATE_DIR, DATA_DIR, SITE_DIR, bucket, sheet_i,
                   csv_files, lists_all, started, uploads, before>>

Next ==
    \/ DownloadClear
    \/ DownloadOpen
    \/ DownloadSheet
    \/ DownloadReturn
    \/ GenerateClear
    \/ GenerateCopy
    \/ GenerateTemplate
    \/ GenerateLists
    \/ GenerateRender
    \/ OpenSession
    \/ UploadEntry
    \/ UploadReturn

Spec == Init /\ [][Next]_vars

SpecTitles == InitTitles /\ [][Next]_vars

(* ------------------------------ claims --------------------------------- *)
GenerateStage == "generate_site"
UploadStage   == "upload_recursively_to_s3"

\* C1: the stages run in the order download_sheets, generate_site,
\* upload_recursively_to_s3, each entered only after the one before returned;
\* after an error in download_sheets generate_site is never entered and
\* nothing is uploaded, after an error in generate_site nothing is uploaded.
C1_StagesInSequence ==
    /\ GenerateStage \in started => "download_sheets" \in completed
    /\ UploadStage \in started => GenerateStage \in completed
    /\ pc \in {"gen_copy", "gen_template", "gen_lists", "gen_render"}
          => "download_sheets" \in completed
    /\ pc = "upload" \/ uploads # EmptyMap => GenerateStage \in completed
    /\ raised.stage = "download_sheets"
          => GenerateStage \notin started /\ UploadStage \notin started /\ uploads = EmptyMap
    /\ raised.stage = GenerateStage => UploadStage \notin started /\ uploads = EmptyMap

C1_Witness ==
    /\ pc = "failed"
    /\ raised.stage = GenerateStage
    /\ "download_sheets" \in completed
    /\ DATA_DIR.files # EmptyMap

\* the path of a file relative to the root, its names joined with "/"
RECURSIVE RelKey(_)
RelKey(path) ==
    IF Len(path) = 1 THEN path[1] ELSE path[1] \o <<"/">> \o RelKey(Tail(path))

Uploadable == {f \in DOMAIN SITE_DIR.files : Last(f) \notin {N_template, N_DS_Store}}

\* C2: no upload_file call is for a file named template.html or .DS_Store, and
\* when the upload has returned every other file below the site root was
\* uploaded exactly once, under its path relative to the root.
C2_UploadsTheTree ==
    /\ \A c \in DOMAIN uploads :
         /\ Last(c.file) \notin {N_template, N_DS_Store}
         /\ c.file \in DOMAIN SITE_DIR.files
         /\ c.Key = RelKey(c.file)
         /\ uploads[c] = 1
    /\ pc = "done" =>
         \A f \in Uploadable :
            Cardinality({c \in DOMAIN uploads : c.file = f}) = 1

C2_Witness ==
    /\ pc = "done"
    /\ \E c \in DOMAIN uploads : Len(c.file) = 3
    /\ \E f \in DOMAIN SITE_DIR.files : Len(f) = 2 /\ Last(f) = N_DS_Store

EndsWithCsv(name) ==
    Len(name) >= 2 /\ name[Len(name) - 1] = "." /\ name[Len(name)] = "csv"

\* the name has the form <digit>_<key>.csv
HasKeyForm(name) ==
    Len(name) >= 4 /\ name[1] \in Digits /\ name[2] = "_" /\ EndsWithCsv(name)

KeyOf(name) == SubSeq(name, 3, Len(name) - 2)

ListsBuilt == pc \in {"gen_render", "session", "upload", "done"}

\* C3: when generate_site has built its categories, every .csv file of the
\* data directory has the form <digit>_<key>.csv and its category carries
\* exactly <key>; a name of any other form has ended the run instead.
C3_KeyOrFatal ==
    ListsBuilt =>
       /\ Len(lists_all) = Len(csv_files)
       /\ \A i \in 1..Len(csv_files) :
            /\ HasKeyForm(csv_files[i])
            /\ lists_all[i].original_name = KeyOf(csv_files[i])

DataCsvNames == {Last(p) : p \in {q \in DOMAIN DATA_DIR.files : EndsWithCsv(Last(q))}}

\* C4: the categories built by generate_site are one per .csv file of the data
\* directory, in the ascending order of the file names.
C4_CategoriesInNameOrder ==
    ListsBuilt =>
       /\ Len(lists_all) = Cardinality(DataCsvNames)
       /\ Len(csv_files) = Len(lists_all)
       /\ {csv_files[i] : i \in 1..Len(csv_files)} = DataCsvNames
       /\ \A i, j \in 1..Len(csv_files) : i < j => StrLess(csv_files[i], csv_files[j])
       /\ \A i \in 1..Len(lists_all) :
            /\ lists_all[i].original_name = group1(csv_files[i])
            /\ lists_all[i].list_ind = DictReader(DATA_DIR.files[<<csv_files[i]>>])

C4_Witness ==
    /\ pc = "gen_render"
    /\ Len(lists_all) = 2
    /\ StrLess(workbook[2].title, workbook[1].title)
    /\ lists_all[1].list_ind # lists_all[2].list_ind

Leftover(dir, old) ==
    \E p \in DOMAIN dir.files : p \in DOMAIN old.files /\ dir.files[p] = old.files[p]

\* C6: download_sheets writes its first file into an empty data directory and
\* generate_site copies its first asset into an empty site directory; where
\* something from before the run is still there, the stage has failed with
\* the error of mkdir and has written nothing.
C6_CleanSlate ==
    /\ pc = "dl_loop" /\ sheet_i = 1 => DATA_DIR = EmptyDir
    /\ pc = "gen_copy" => SITE_DIR = EmptyDir
    /\ Leftover(DATA_DIR, before.data) =>
         \/ pc = "download_sheets"
         \/ /\ pc = "failed"
            /\ raised = Error("download_sheets", "FileExistsError")
            /\ \A p \in DOMAIN DATA_DIR.files :
                 p \in DOMAIN before.data.files /\ DATA_DIR.files[p] = before.data.files[p]
    /\ Leftover(SITE_DIR, before.site) =>
         \/ GenerateStage \notin started
         \/ /\ pc = "failed"
            /\ raised = Error(GenerateStage, "FileExistsError")
            /\ \A p \in DOMAIN SITE_DIR.files :
                 p \in DOMAIN before.site.files /\ SITE_DIR.files[p] = before.site.files[p]

C6_Witness ==
    /\ pc = "gen_copy"
    /\ before.data.files # EmptyMap
    /\ before.site.files # EmptyMap
    /\ SITE_DIR = EmptyDir
    /\ DATA_DIR.files # EmptyMap

LocalKeys == {RelKey(f) : f \in Uploadable}

\* C7: no step removes a key from the bucket, and a step changes or adds only
\* objects whose key is the relative path of a file of the site directory.
C7_NeverPrunes ==
    [][/\ \A k \in DOMAIN bucket :
            k \in DOMAIN bucket' /\ (bucket'[k] # bucket[k] => k \in LocalKeys)
       /\ \A k \in DOMAIN bucket' : k \notin DOMAIN bucket => k \in LocalKeys]_vars

C7_Witness ==
    /\ pc = "done"
    /\ <<"old", ".", "html">> \in DOMAIN bucket
    /\ <<N_old>> \notin DOMAIN SITE_DIR.files
    /\ bucket[<<"old", ".", "html">>].Body.what = "stale"
    /\ bucket[<<"index", ".", "html">>].Body.what = "rendered"
    /\ bucket[<<"css", "/", "style", ".", "css">>].Body.what = "style"

\* the name ends in a dot and ext, with something before the dot
HasExt(name, ext) ==
    Len(name) >= 3 /\ name[Len(name) - 1] = "." /\ name[Len(name)] = ext

TypeByExtension(name) ==
    IF HasExt(name, "css") THEN "text/css"
    ELSE IF HasExt(name, "html") THEN "text/html"
    ELSE IF HasExt(name, "jpg") THEN "image/jpeg"
    ELSE IF HasExt(name, "xml") THEN "text/xml"
    ELSE "application/octet-stream"

\* C8: every upload_file call, and the object it stores, carries the
\* content-type of the table for the file's extension, and
\* application/octet-stream for any other extension.
C8_ContentTypeByExtension ==
    \A c \in DOMAIN uploads :
       /\ c.ContentType = TypeByExtension(Last(c.file))
       /\ bucket[c.Key].ContentType = TypeByExtension(Last(c.file))

C8_Witness ==
    /\ pc = "done"
    /\ {c.ContentType : c \in DOMAIN uploads}
         = {"text/css", "text/html", "image/jpeg", "text/xml", "application/octet-stream"}

RenderErrors == {"TemplateNotFound", "TemplateSyntaxError", "AttributeError", "UndefinedError"}

\* C9 as claimed: when generate_site has aborted with a template or file-name
\* error, the site directory holds no copied assets without index.html.
C9_NoPartialOutput ==
    raised.stage = GenerateStage /\ raised.error \in RenderErrors =>
       \/ DOMAIN SITE_DIR.files = {}
       \/ <<N_index>> \in DOMAIN SITE_DIR.files

\* C9 as amended: when generate_site has aborted with a template or file-name
\* error, the run has ended, no index document has been written and nothing
\* has been uploaded; the assets copied before the error are still in the
\* site directory.
C9_FatalBeforeIndex ==
    raised.stage = GenerateStage /\ raised.error \in RenderErrors =>
       /\ pc = "failed"
       /\ \A p \in DOMAIN SITE_DIR.files : SITE_DIR.files[p].what # "rendered"
       /\ <<N_index>> \notin DOMAIN SITE_DIR.files
       /\ uploads = EmptyMap
       /\ \A p \in DOMAIN TEMPLATE_DIR.files :
            Len(p) > 1 \/ p[1] \notin {N_template, N_DS_Store}
               => p \in DOMAIN SITE_DIR.files /\ SITE_DIR.files[p] = TEMPLATE_DIR.files[p]

C9_Witness ==
    /\ raised = Error(GenerateStage, "AttributeError")
    /\ DOMAIN SITE_DIR.files # {}
    /\ <<N_index>> \notin DOMAIN SITE_DIR.files

\* C10: a failed upload_file call ends the run with its error: from then on
\* no further call is made, the bucket stays as it is, and no call is in
\* progress.
C10_UploadFailureIsFatal ==
    [][/\ raised'.stage = UploadStage => pc' = "failed" /\ stack' = <<>>
       /\ raised.stage = UploadStage =>
            uploads' = uploads /\ bucket' = bucket /\ pc' = "failed"]_vars

C10_Witness ==
    /\ pc = "failed"
    /\ raised = Error(UploadStage, "S3UploadFailedError")
    /\ \E c \in DOMAIN uploads : Len(c.file) >= 2
    /\ \E f \in Uploadable : \A c \in DOMAIN uploads : c.file # f

====
